---- MODULE Spec2Model ----
(***************************************************************************)
(* Model of the Polymarket paper-trading engine (polymarket_live.py, the   *)
(* here-document of HOSTINGER_ONE_PASTE_INSTALL.sh, lines 34-403).         *)
(*                                                                         *)
(* Numbers.  The engine computes in binary floating point; the model       *)
(* computes in fixed point and rounds every division down:                 *)
(*   prices               integer cents             (0.33  -> 33)          *)
(*   cash, amounts, PnL   1/10000 dollar            (100.0 -> 1000000)     *)
(*   shares               1/10000 share                                    *)
(*   fractions (pct, dd)  1/100000                  (0.10  -> 10000)       *)
(* Momentum, window return and volatility are compared with their          *)
(* thresholds exactly, by cross-multiplication.                            *)
(***************************************************************************)
EXTENDS Integers, Sequences, FiniteSets, TLC

\* ---------------------------------------------------------------- CONFIG
BANKROLL == 1000000
\* a position of twice the cash
POSITION_SIZE_double == 2 * 1000

POSITION_SIZE == 3
MIN_LIQUIDITY == 100
CIRCUIT_BREAKER == 3
MR_entry_threshold == 40
MR_stop_loss == 10000
MR_profit_target == 60000
REV_momentum_2_threshold == 1
REV_momentum_10_threshold == -2
REV_stop_loss == 8000
REV_profit_target == 5000
RegimeWindow == 10
HistoryCap == 20
TopMarkets == 5
DefaultYesPrice == 50

\* ---------------------------------------------------------------- bounds
\* Two markets are offered, at a few price levels (cents).  Before the run a
\* process has observed each market WarmLen times at one price.
MarketIds == {1, 2}
PriceLevels == {20, 26, 33, 45}
WarmLevels == {20, 30}
WarmLen == RegimeWindow - 1
\* Spec: feeds of up to MaxFeed listings, MaxObs listings in a run.
MaxFeed == 2
MaxObs == 3
\* SpecCrash: feeds of at most one listing, MaxObs listings and at most
\* MaxCrashes interruptions in a run.
MaxCrashes == 1
\* SpecDeep: feeds of at most one listing; market 1 is listed up to MaxObsA
\* times at a level of DeepLevelsA, market 2 up to MaxObsB times at a level
\* of DeepLevelsB.
DeepLevelsA == {20, 23, 26, 33}
DeepLevelsB == {20, 33}
DeepWarm == CHOOSE p \in DeepLevelsA : \A q \in DeepLevelsA : p <= q
MaxObsA == 4
MaxObsB == 2
\* SpecFilter: the request delivers a list of up to MaxRaw records, each
\* priced at a level of RawLevels, or fails.
MaxRaw == 2
RawLevels == {20}
\* SpecOverlap: feeds of at most one listing, MaxObsOverlap listings in a run
\* of the first process.
MaxObsOverlap == 2
\* SpecCron: feeds of up to MaxCronFeed listings, of which a cycle processes
\* TopMarkets; MaxCronObs listings are processed in a run.
MaxCronFeed == 6
MaxCronObs == 10
\* SpecLoaded: feeds of at most one listing, MaxObsLoaded listings in a run.
MaxObsLoaded == 2
\* SpecSignal: feeds of at most one listing, MaxObsSignal listings in a run.
MaxObsSignal == 3

MaxCalls == 3

MaxObsRoll == 4

\* ---------------------------------------------------------------- helpers
RECURSIVE SumSeq(_)
SumSeq(s) == IF s = <<>> THEN 0 ELSE Head(s) + SumSeq(Tail(s))

RECURSIVE SumSq(_)
SumSq(s) == IF s = <<>> THEN 0 ELSE Head(s) * Head(s) + SumSq(Tail(s))

\* s[:n] in place of s[-n:]
OldestN(s, n) == IF Len(s) <= n THEN s ELSE SubSeq(s, 1, n)

LastN(s, n) == IF Len(s) <= n THEN s ELSE SubSeq(s, Len(s) - n + 1, Len(s))

FirstN(s, n) == IF Len(s) <= n THEN s ELSE SubSeq(s, 1, n)

RemoveAt(s, i) == SubSeq(s, 1, i - 1) \o SubSeq(s, i + 1, Len(s))

Repeat(x, n) == [i \in 1..n |-> x]

\* sorted(markets, key=liquidity, reverse=True): stable insertion of each
\* record behind every record whose key is >= its own.
RECURSIVE InsertDesc(_, _)
InsertDesc(m, s) ==
    IF s = <<>> THEN <<m>>
    ELSE IF Head(s).liquidity >= m.liquidity
         THEN <<Head(s)>> \o InsertDesc(m, Tail(s))
         ELSE <<m>> \o s

RECURSIVE SortByLiquidity(_)
SortByLiquidity(s) ==
    IF s = <<>> THEN <<>>
    ELSE LET n == Len(s) IN InsertDesc(s[n], SortByLiquidity(SubSeq(s, 1, n - 1)))

\* outcomes_dict.get("YES", outcomes_dict.get("Up", 0.5))
YesPrice(market) ==
    LET od == market.outcomes_dict IN
    IF "YES" \in DOMAIN od THEN od["YES"]
    ELSE IF "Up" \in DOMAIN od THEN od["Up"]
    ELSE DefaultYesPrice

\* ---------------------------------------------------------------- MARKET DISCOVERY
\* Texts are strings; Chars gives the characters of the texts that occur,
\* so that upper() and the substring test "kw in text" are computed.
Chars(s) ==
    CASE s = "BTC" -> <<"B", "T", "C">>
      [] s = "ETH" -> <<"E", "T", "H">>
      [] s = "SOL" -> <<"S", "O", "L">>
      [] s = "bitcoin" -> <<"b", "i", "t", "c", "o", "i", "n">>
      [] s = "ethereum" -> <<"e", "t", "h", "e", "r", "e", "u", "m">>
      [] s = "solana" -> <<"s", "o", "l", "a", "n", "a">>
      [] s = "up" -> <<"u", "p">>
      [] s = "down" -> <<"d", "o", "w", "n">>
      [] s = "higher" -> <<"h", "i", "g", "h", "e", "r">>
      [] s = "lower" -> <<"l", "o", "w", "e", "r">>
      [] s = "+" -> <<"+">>
      [] s = "-" -> <<"-">>
      [] s = "Bitcoin" -> <<"B", "i", "t", "c", "o", "i", "n">>
      [] s = "Gold" -> <<"G", "o", "l", "d">>
      [] s = "Up" -> <<"U", "p">>
      [] s = "Down" -> <<"D", "o", "w", "n">>
      [] s = "Down-" -> <<"D", "o", "w", "n", "-">>

\* str.upper() on one character
UpperChar(c) ==
    CASE c = "a" -> "A" [] c = "b" -> "B" [] c = "c" -> "C" [] c = "d" -> "D"
      [] c = "e" -> "E" [] c = "g" -> "G" [] c = "h" -> "H" [] c = "i" -> "I"
      [] c = "l" -> "L" [] c = "m" -> "M" [] c = "n" -> "N" [] c = "o" -> "O"
      [] c = "p" -> "P" [] c = "r" -> "R" [] c = "s" -> "S" [] c = "t" -> "T"
      [] c = "u" -> "U" [] c = "w" -> "W"
      [] OTHER -> c

upper(text) == [i \in 1..Len(text) |-> UpperChar(text[i])]

\* kw in text
IsSubstring(kw, text) ==
    \E i \in 0..(Len(text) - Len(kw)) : SubSeq(text, i + 1, i + Len(kw)) = kw

crypto_keywords == {"BTC", "ETH", "SOL", "bitcoin", "ethereum", "solana"}

outcome_keywords == {"up", "down", "higher", "lower", "+", "-"}

\* " ".join([o.upper() for o in outcomes])
RECURSIVE JoinUpper(_)
JoinUpper(names) ==
    IF names = <<>> THEN <<>>
    ELSE IF Len(names) = 1 THEN upper(Chars(names[1]))
    ELSE upper(Chars(Head(names))) \o <<" ">> \o JoinUpper(Tail(names))

\* JSON values of the field liquidityNum: a number, null, a text that is
\* not a number, or no such field.
Number(n) == [kind |-> "number", value |-> n]

JsonNull == [kind |-> "null", value |-> 0]

JsonText == [kind |-> "text", value |-> 0]

Missing == [kind |-> "missing", value |-> 0]

\* float(market.get("liquidityNum", 0)): <<raises, value>>
to_float(x) ==
    CASE x.kind = "number" -> <<FALSE, x.value>>
      [] x.kind = "missing" -> <<FALSE, 0>>
      [] OTHER -> <<TRUE, 0>>

\* {o: prices[i] for i, o in enumerate(outcomes)}
OutcomesDict(names, values) ==
    [o \in {names[i] : i \in 1..Len(names)} |->
        values[CHOOSE i \in 1..Len(names) : names[i] = o]]

\* The body of the loop of get_crypto_markets for one record of the feed:
\* "drop" (continue, or not appended), "keep" (appended) or "raise" (an
\* exception outside the two inner try blocks).
\*   outcomes:      parse (json.loads succeeds), names, strs (every name is a str)
\*   outcomePrices: parse, numeric (float succeeds on every price), values
Examine(market) ==
    IF market.closed \/ ~market.active THEN "drop"
    ELSE LET liquidity == to_float(market.liquidityNum) IN
         IF liquidity[1] THEN "raise"
         ELSE IF liquidity[2] < MIN_LIQUIDITY THEN "drop"
         ELSE LET question == upper(Chars(market.question))
                  is_crypto == \E kw \in crypto_keywords : IsSubstring(Chars(kw), question)
                  outcomes == market.outcomes
                  is_binary == outcomes.parse /\ Len(outcomes.names) = 2
                  prices == market.outcomePrices
              IN IF ~outcomes.parse THEN "drop"
                 ELSE IF ~outcomes.strs THEN "raise"
                 ELSE LET outcome_text == JoinUpper(outcomes.names)
                          is_directional ==
                              \E kw \in outcome_keywords : IsSubstring(Chars(kw), outcome_text)
                      IN IF is_crypto /\ is_binary /\ is_directional
                         THEN IF /\ prices.parse /\ prices.numeric
                                 /\ Len(prices.values) >= Len(outcomes.names)
                              THEN "keep"
                              ELSE "drop"
                         ELSE "drop"

\* the record appended on line 114, with the fields the engine reads
Appended114(market) ==
    [id |-> market.id, question |-> market.question, liquidity |-> market.liquidity,
     outcomes_dict |-> OutcomesDict(market.outcomes.names, market.outcomePrices.values)]

RECURSIVE Kept(_)
Kept(body) ==
    IF body = <<>> THEN <<>>
    ELSE IF Examine(Head(body)) = "keep"
         THEN <<Appended114(Head(body))>> \o Kept(Tail(body))
         ELSE Kept(Tail(body))

\* except Exception: return []
OnFetchErrorStale(resp) ==
    <<[id |-> 1, question |-> "BTC", liquidity |-> MIN_LIQUIDITY,
       outcomes_dict |-> [o \in {"Up", "Down-"} |-> IF o = "Up" THEN 20 ELSE 80]]>>

OnFetchError(resp) == <<>>

\* A response is "ok" (a JSON list, the body), or the request timed out,
\* failed, or delivered a text that is not JSON or not a list.
get_crypto_markets(resp) ==
    IF resp.kind # "ok" THEN OnFetchError(resp)
    ELSE IF \E i \in 1..Len(resp.body) : Examine(resp.body[i]) = "raise"
         THEN OnFetchError(resp)
         ELSE Kept(resp.body)

\* ---------------------------------------------------------------- STRATEGY LOGIC
\* A momentum is the exact fraction <<numerator, denominator>>, denominator > 0.
calculate_momentum(prices, period) ==
    IF Len(prices) < period + 1 THEN <<0, 1>>
    ELSE LET base == prices[Len(prices) - period + 1]
             last == prices[Len(prices)]
         IN IF base # 0 THEN <<last - base, base>> ELSE <<0, 1>>

\* stdev(recent) > 0.15 for the 10-point window, in cents:
\* sum((x - mean)^2) / 9 > 15^2  <=>  10*sum(x^2) - sum(x)^2 > 10 * 9 * 225
Volatile(recent) ==
    LET n == Len(recent) IN
    n * SumSq(recent) - SumSeq(recent) * SumSeq(recent) > n * (n - 1) * 225

\* lines 132-142 without the test of line 130
detect_market_regime_any_length(price_history) ==
    LET recent == LastN(price_history, RegimeWindow)
        first == recent[1]
        last == recent[Len(recent)]
    IN IF first = 0 THEN "error"
       ELSE IF Volatile(recent) THEN "volatile"
       ELSE IF (last - first) * 100 > 5 * first THEN "bull"
       ELSE IF (last - first) * 100 < (-5) * first THEN "bear"
       ELSE "sideways"

\* "error" stands for the ZeroDivisionError raised when recent[0] == 0.
detect_market_regime(price_history) ==
    IF Len(price_history) < RegimeWindow THEN "unknown"
    ELSE LET recent == LastN(price_history, RegimeWindow)
             first == recent[1]
             last == recent[Len(recent)]
         IN IF first = 0 THEN "error"
            ELSE IF Volatile(recent) THEN "volatile"
            ELSE IF (last - first) * 100 > 5 * first THEN "bull"
            ELSE IF (last - first) * 100 < (-5) * first THEN "bear"
            ELSE "sideways"

\* lines 145-149 without the test of the regime on line 147
should_enter_mean_reversion_any_regime(yes_price, price_history) ==
    IF yes_price < MR_entry_threshold
    THEN IF detect_market_regime(price_history) = "error" THEN <<FALSE, "error">>
         ELSE <<TRUE, "mean_reversion">>
    ELSE <<FALSE, "">>

\* <<fires, reason>>; "error" when detect_market_regime raises.
should_enter_mean_reversion(yes_price, price_history) ==
    IF yes_price < MR_entry_threshold
    THEN LET regime == detect_market_regime(price_history) IN
         IF regime = "error" THEN <<FALSE, "error">>
         ELSE IF regime \in {"bull", "sideways"} THEN <<TRUE, "mean_reversion">>
         ELSE <<FALSE, "">>
    ELSE <<FALSE, "">>

should_enter_reversal(price_history) ==
    IF Len(price_history) < RegimeWindow THEN <<FALSE, "">>
    ELSE LET momentum_2 == calculate_momentum(price_history, 2)
             momentum_10 == calculate_momentum(price_history, 10)
             regime == detect_market_regime(price_history)
         IN IF regime = "error" THEN <<FALSE, "error">>
            ELSE IF /\ momentum_2[1] * 100 > REV_momentum_2_threshold * momentum_2[2]
                    /\ momentum_10[1] * 100 < REV_momentum_10_threshold * momentum_10[2]
                    /\ regime \in {"bear", "volatile"}
                 THEN <<TRUE, "reversal">>
                 ELSE <<FALSE, "">>

\* <<signal, strategy>>; the signal "None" is the except branch.
generate_signal(market, price_history) ==
    LET yes_price == YesPrice(market)
        mr == should_enter_mean_reversion(yes_price, price_history)
        rev == should_enter_reversal(price_history)
    IN IF mr[2] = "error" THEN <<"None", "">>
       ELSE IF mr[1] THEN <<"BUY", mr[2]>>
       ELSE IF rev[2] = "error" THEN <<"None", "">>
       ELSE IF rev[1] THEN <<"BUY", rev[2]>>
       ELSE <<"HOLD", "">>

\* ---------------------------------------------------------------- POSITION TRACKING
DefaultPortfolio ==
    [positions |-> <<>>, cash |-> BANKROLL, equity |-> BANKROLL,
     high_water |-> BANKROLL, max_drawdown |-> 0, consecutive_losses |-> 0]

\* A file is absent, holds a complete JSON document ("ok"), or holds the
\* truncated remains of an interrupted write ("torn").
AbsentFile(empty) == [state |-> "absent", data |-> empty]

OkFile(d) == [state |-> "ok", data |-> d]

TornFile(empty) == [state |-> "torn", data |-> empty]

load_positions(file) == IF file.state = "ok" THEN file.data ELSE DefaultPortfolio

save_positions(doc) == OkFile(doc)

load_trades(file) == IF file.state = "ok" THEN file.data ELSE <<>>

save_trades(trades) == OkFile(trades)

\* the equity-curve read of run_trading_cycle
load_equity(file) == IF file.state = "ok" THEN file.data ELSE <<>>

RECURSIVE SumUnrealized(_)
SumUnrealized(ps) ==
    IF ps = <<>> THEN 0 ELSE Head(ps).unrealized_pnl + SumUnrealized(Tail(ps))

\* positions["cash"] + sum(p.get("unrealized_pnl", 0) for p in positions["positions"])
ComputeEquity(doc) == doc.cash + SumUnrealized(doc.positions)

\* line 220, line 366
RecomputeEquityStale(doc) == doc

RecomputeEquity(doc) == [doc EXCEPT !.equity = ComputeEquity(doc)]

\* lines 221-222
UpdateHighWaterAlways(doc) == [doc EXCEPT !.high_water = doc.equity]

UpdateHighWater(doc) ==
    IF doc.equity > doc.high_water THEN [doc EXCEPT !.high_water = doc.equity] ELSE doc

\* lines 223-225
UpdateDrawdown(doc) ==
    LET drawdown == ((doc.high_water - doc.equity) * 100000) \div doc.high_water
    IN IF drawdown > doc.max_drawdown THEN [doc EXCEPT !.max_drawdown = drawdown] ELSE doc

\* body of the loop of update_position_pnl for the matching position i
MarkPosition(doc, i, yes_price) ==
    LET position == doc.positions[i]
        current_value == (position.shares * yes_price) \div 100
        cost_basis == (position.shares * position.entry_price) \div 100
        unrealized_pnl == current_value - cost_basis
        unrealized_pnl_pct ==
            IF cost_basis # 0 THEN (unrealized_pnl * 100000) \div cost_basis ELSE 0
        marked == [position EXCEPT !.current_price = yes_price,
                                   !.unrealized_pnl = unrealized_pnl,
                                   !.unrealized_pnl_pct = unrealized_pnl_pct]
    IN UpdateDrawdown(UpdateHighWater(RecomputeEquity(
           [doc EXCEPT !.positions[i] = marked])))

\* lines 209-225 without the test of line 210
RECURSIVE UpdateFromAll(_, _, _)
UpdateFromAll(doc, market, i) ==
    IF i > Len(doc.positions) THEN doc
    ELSE UpdateFromAll(MarkPosition(doc, i, YesPrice(market)), market, i + 1)

RECURSIVE UpdateFrom(_, _, _)
UpdateFrom(doc, market, i) ==
    IF i > Len(doc.positions) THEN doc
    ELSE IF doc.positions[i].market_id = market.id
         THEN UpdateFrom(MarkPosition(doc, i, YesPrice(market)), market, i + 1)
         ELSE UpdateFrom(doc, market, i + 1)

update_position_pnl(doc, market) == UpdateFrom(doc, market, 1)

StopLossOf(strategy) == IF strategy = "reversal" THEN REV_stop_loss ELSE MR_stop_loss

ProfitTargetOfReversal(strategy) == REV_profit_target

ProfitTargetOf(strategy) ==
    IF strategy = "reversal" THEN REV_profit_target ELSE MR_profit_target

\* line 233
BreakerTrippedLate(doc) == doc.consecutive_losses > CIRCUIT_BREAKER

BreakerTripped(doc) == doc.consecutive_losses >= CIRCUIT_BREAKER

Rejected(doc, why) == [ok |-> FALSE, why |-> why, doc |-> doc, trade |-> <<>>]

\* execute_trade up to the write of the trade log: the veto or the new
\* portfolio, and the BUY record to append.
execute_trade(doc, market, signal, strategy) ==
    IF signal # "BUY" THEN Rejected(doc, "not_buy")
    ELSE IF BreakerTripped(doc)
    THEN Rejected(doc, "circuit_breaker")
    ELSE LET yes_price == YesPrice(market)
             position_amount == (doc.cash * POSITION_SIZE) \div 1000
         IN IF yes_price = 0 THEN Rejected(doc, "error")
            ELSE IF position_amount > doc.cash THEN Rejected(doc, "insufficient_cash")
            ELSE LET shares == (position_amount * 100) \div yes_price
                     position ==
                         [market_id |-> market.id,
                          market_question |-> market.question,
                          entry_price |-> yes_price,
                          shares |-> shares,
                          amount |-> position_amount,
                          strategy |-> strategy,
                          current_price |-> yes_price,
                          unrealized_pnl |-> 0,
                          unrealized_pnl_pct |-> 0,
                          stop_loss_pct |-> StopLossOf(strategy),
                          profit_target_pct |-> ProfitTargetOf(strategy)]
                     ps == Append(doc.positions, position)
                 IN [ok |-> TRUE, why |-> "accepted",
                     doc |-> [doc EXCEPT !.positions = ps,
                                         !.cash = doc.cash - position_amount],
                     trade |-> <<[type |-> "BUY",
                                  market |-> market.question,
                                  strategy |-> strategy,
                                  price |-> yes_price,
                                  shares |-> shares,
                                  amount |-> position_amount,
                                  position_id |-> Len(ps) - 1]>>]

RECURSIVE ExitFromStopFirst(_, _, _)
ExitFromStopFirst(doc, market, i) ==
    IF i > Len(doc.positions) THEN <<FALSE, "", 0>>
    ELSE LET position == doc.positions[i]
             pnl_pct == position.unrealized_pnl_pct
         IN IF position.market_id # market.id THEN ExitFromStopFirst(doc, market, i + 1)
            ELSE IF pnl_pct <= -position.stop_loss_pct
                 THEN <<TRUE, "stop_loss", pnl_pct>>
            ELSE IF pnl_pct >= position.profit_target_pct
                 THEN <<TRUE, "profit_target", pnl_pct>>
            ELSE ExitFromStopFirst(doc, market, i + 1)

RECURSIVE ExitFrom(_, _, _)
ExitFrom(doc, market, i) ==
    IF i > Len(doc.positions) THEN <<FALSE, "", 0>>
    ELSE LET position == doc.positions[i]
             pnl_pct == position.unrealized_pnl_pct
         IN IF position.market_id # market.id THEN ExitFrom(doc, market, i + 1)
            ELSE IF pnl_pct >= position.profit_target_pct
                 THEN <<TRUE, "profit_target", pnl_pct>>
            ELSE IF pnl_pct <= -position.stop_loss_pct
                 THEN <<TRUE, "stop_loss", pnl_pct>>
            ELSE ExitFrom(doc, market, i + 1)

\* <<should_exit, reason, pct printed in the reason>>
check_exit_conditions_breaker(doc, market) ==
    IF BreakerTripped(doc) THEN <<FALSE, "", 0>> ELSE ExitFrom(doc, market, 1)

check_exit_conditions(doc, market) == ExitFrom(doc, market, 1)

RECURSIVE FirstMatch(_, _, _)
FirstMatch(ps, market_id, i) ==
    IF i > Len(ps) THEN 0
    ELSE IF ps[i].market_id = market_id THEN i
    ELSE FirstMatch(ps, market_id, i + 1)

\* line 306 with the comparison realized_pnl >= 0
close_position_zero_resets(doc, market, exit_reason) ==
    LET i == FirstMatch(doc.positions, market.id, 1) IN
    IF i = 0 THEN Rejected(doc, "no_position")
    ELSE LET position == doc.positions[i]
             yes_price == YesPrice(market)
             realized_pnl == position.unrealized_pnl
             sell_amount == (position.shares * yes_price) \div 100
             losses == IF realized_pnl >= 0 THEN 0 ELSE doc.consecutive_losses + 1
         IN [ok |-> TRUE, why |-> "closed",
             doc |-> [doc EXCEPT !.cash = doc.cash + sell_amount,
                                 !.consecutive_losses = losses,
                                 !.positions = RemoveAt(doc.positions, i)],
             trade |-> <<[type |-> "SELL",
                          market |-> market.question,
                          price |-> yes_price,
                          shares |-> position.shares,
                          amount |-> sell_amount,
                          realized_pnl |-> realized_pnl,
                          realized_pnl_pct |-> position.unrealized_pnl_pct,
                          exit_reason |-> exit_reason,
                          position_id |-> i - 1]>>]

\* close_position: the first position of the market is sold at the market's
\* current price; the SELL record is appended to the trade log.
close_position(doc, market, exit_reason) ==
    LET i == FirstMatch(doc.positions, market.id, 1) IN
    IF i = 0 THEN Rejected(doc, "no_position")
    ELSE LET position == doc.positions[i]
             yes_price == YesPrice(market)
             realized_pnl == position.unrealized_pnl
             sell_amount == (position.shares * yes_price) \div 100
             losses == IF realized_pnl > 0 THEN 0 ELSE doc.consecutive_losses + 1
         IN [ok |-> TRUE, why |-> "closed",
             doc |-> [doc EXCEPT !.cash = doc.cash + sell_amount,
                                 !.consecutive_losses = losses,
                                 !.positions = RemoveAt(doc.positions, i)],
             trade |-> <<[type |-> "SELL",
                          market |-> market.question,
                          price |-> yes_price,
                          shares |-> position.shares,
                          amount |-> sell_amount,
                          realized_pnl |-> realized_pnl,
                          realized_pnl_pct |-> position.unrealized_pnl_pct,
                          exit_reason |-> exit_reason,
                          position_id |-> i - 1]>>]

\* any(p["market_id"] == market_id for p in positions["positions"])
has_position_never(doc, market_id) == FALSE

has_position(doc, market_id) == FirstMatch(doc.positions, market_id, 1) # 0

\* ---------------------------------------------------------------- MAIN TRADING LOOP
VARIABLES
    pc,                   \* "idle", "loop", "persist", "equity": position in run_trading_cycle
    step,                 \* the statement of the loop body that runs next
    markets,              \* the sorted, truncated market list of the running cycle
    idx,                  \* index in markets of the market being processed
    positions,            \* the in-memory portfolio of the running cycle
    price_history_cache,  \* market id -> prices observed by this process
    posFile,              \* POSITION_FILE
    tradesFile,           \* TRADES_FILE
    equityFile,           \* EQUITY_FILE
    obs,                  \* observations made so far, per market (bounds the run)
    pre,                  \* the three files as they were when the last cycle started
    last,                 \* how the last cycle ended
    rerun,                \* the cycle repeats the feed of a cycle that was interrupted before its save
    written,              \* the last portfolio document that was written completely
    crashes,              \* interruptions so far (bounds the run)
    breaker,              \* progress of the circuit breaker: "armed", then
                          \* "vetoed" (a BUY was vetoed), "reset" (a winning close
                          \* followed), "reaccepted" (a later BUY was accepted)
    response,             \* what the request of get_crypto_markets delivers
    other                 \* a second engine process that overlaps the cycle

vars == <<pc, step, markets, idx, positions, price_history_cache, posFile,
          tradesFile, equityFile, obs, pre, last, rerun, written, crashes, breaker,
          response, other>>

\* A record as get_crypto_markets returns it.  Its first outcome is named
\* "Up", the key the engine reads the price from; the name of the second
\* contains "-", without which no record passes the test of line 105.
FeedLiquidity(id) == MIN_LIQUIDITY * (1 + Cardinality(MarketIds) - id)

Market(id, up) ==
    [id |-> id, question |-> id, liquidity |-> FeedLiquidity(id),
     outcomes_dict |-> [o \in {"Up", "Down-"} |-> IF o = "Up" THEN up ELSE 100 - up]]

FeedMarkets == {Market(id, up) : id \in MarketIds, up \in PriceLevels}

Feeds == UNION {[1..n -> FeedMarkets] : n \in 0..MaxFeed}

Listings(feed, id) == Cardinality({i \in 1..Len(feed) : feed[i].id = id})

WithinBudget(fetched) == obs[1] + obs[2] + Len(fetched) <= MaxObs

SingleFeeds == {f \in Feeds : Len(f) <= 1}

DeepFeeds ==
    {<<>>} \cup {<<Market(1, up)>> : up \in DeepLevelsA}
           \cup {<<Market(2, up)>> : up \in DeepLevelsB}

WithinDeepBudget(fetched) ==
    /\ obs[1] + Listings(fetched, 1) <= MaxObsA
    /\ obs[2] + Listings(fetched, 2) <= MaxObsB

Snapshot == [pos |-> posFile, trades |-> tradesFile, equity |-> equityFile]

\* lines 369-375 with the cash in place of the equity
EquityEntryCashOnly(doc) ==
    [cash |-> doc.cash, equity |-> doc.cash,
     positions_count |-> Len(doc.positions), max_drawdown |-> doc.max_drawdown]

EquityEntry(doc) ==
    [cash |-> doc.cash, equity |-> doc.equity,
     positions_count |-> Len(doc.positions), max_drawdown |-> doc.max_drawdown]

EmptyCache == [id \in MarketIds |-> <<>>]

\* no request has been recorded
NoResponse == [kind |-> "none", body |-> <<>>]

\* no second process is running
NoOther == [state |-> "none", doc |-> DefaultPortfolio]

\* A fresh installation, or the state after WarmLen cycles in which every
\* market was listed at the constant price w: no history reaches the
\* regime window, so each of those cycles saved the default portfolio and
\* appended one equity entry.
ColdStart ==
    /\ price_history_cache = EmptyCache
    /\ posFile = AbsentFile(DefaultPortfolio)
    /\ equityFile = AbsentFile(<<>>)
    /\ written = AbsentFile(DefaultPortfolio)

WarmStart(w) ==
    /\ price_history_cache = [id \in MarketIds |-> Repeat(w, WarmLen)]
    /\ posFile = OkFile(DefaultPortfolio)
    /\ equityFile = OkFile(Repeat(EquityEntry(DefaultPortfolio), WarmLen))
    /\ written = OkFile(DefaultPortfolio)

InitRun ==
    /\ pc = "idle"
    /\ step = "none"
    /\ markets = <<>>
    /\ idx = 0
    /\ positions = DefaultPortfolio
    /\ tradesFile = AbsentFile(<<>>)
    /\ obs = [id \in MarketIds |-> 0]
    /\ last = "none"
    /\ rerun = FALSE
    /\ breaker = "armed"
    /\ crashes = 0
    /\ other = NoOther

Init ==
    /\ InitRun
    /\ response = NoResponse
    /\ \E w \in WarmLevels : WarmStart(w)
    /\ pre = Snapshot

InitCrash ==
    /\ InitRun
    /\ response = NoResponse
    /\ ColdStart \/ \E w \in WarmLevels : WarmStart(w)
    /\ pre = Snapshot

InitDeep ==
    /\ InitRun
    /\ response = NoResponse
    /\ WarmStart(DeepWarm)
    /\ pre = Snapshot

\* if not markets:
NoMarketsNever(ms) == FALSE

NoMarkets(ms) == ms = <<>>

\* ... return positions: the early return writes none of the three files
EarlyReturnReset(files) == [files EXCEPT !.pos = save_positions(DefaultPortfolio)]

EarlyReturn(files) == files

\* sorted(markets, key=liquidity, reverse=True)[:5]
SelectMarkets(fetched) == FirstN(SortByLiquidity(fetched), TopMarkets)

\* order of the statements of the loop body (lines 347-363)
StepAfterExitFirst(s) ==
    CASE s = "history" -> "exit"
      [] s = "exit" -> "mark"
      [] s = "mark" -> "entry"
      [] s = "entry" -> "next"

StepAfter(s) ==
    CASE s = "history" -> "mark"
      [] s = "mark" -> "exit"
      [] s = "exit" -> "entry"
      [] s = "entry" -> "next"

FirstStep == "history"

cur == markets[idx]

\* control after the statement s of the loop body has run
Advance(s) ==
    IF StepAfter(s) # "next"
    THEN /\ step' = StepAfter(s)
         /\ UNCHANGED <<pc, idx>>
    ELSE IF idx < Len(markets)
    THEN /\ idx' = idx + 1
         /\ step' = FirstStep
         /\ UNCHANGED pc
    ELSE /\ pc' = "persist"
         /\ step' = "none"
         /\ UNCHANGED idx

\* trades = load_trades(); trades.append(trade); save_trades(trades)
LogTradeAlone(file, trade) == save_trades(trade)

LogTrade(file, trade) == save_trades(load_trades(file) \o trade)

\* how a cycle that returned is recorded in last
Returned(ms) ==
    IF ms # <<>> THEN "completed"
    ELSE IF last \in {"empty", "empty_again"} THEN "empty_again"
    ELSE "empty"

\* run_trading_cycle, lines 337-344: load, fetch, early return or sort
LoadAndFetch(fetched) ==
    /\ pc = "idle"
    /\ pre' = IF fetched = <<>> /\ last \in {"empty", "empty_again"} THEN pre ELSE Snapshot
    /\ rerun' = (last = "interrupted" /\ fetched # <<>> /\ SelectMarkets(fetched) = markets)
    /\ IF NoMarkets(fetched)
       THEN /\ last' = Returned(fetched)
            /\ posFile' = EarlyReturn(Snapshot).pos
            /\ tradesFile' = EarlyReturn(Snapshot).trades
            /\ equityFile' = EarlyReturn(Snapshot).equity
            /\ written' = IF posFile' = posFile THEN written ELSE posFile'
            /\ markets' = <<>>
            /\ UNCHANGED <<pc, step, idx, positions>>
       ELSE /\ positions' = load_positions(posFile)
            /\ markets' = SelectMarkets(fetched)
            /\ idx' = 1
            /\ IF SelectMarkets(fetched) = <<>>
               THEN pc' = "persist" /\ step' = "none"
               ELSE pc' = "loop" /\ step' = FirstStep
            /\ last' = "running"
            /\ UNCHANGED <<posFile, tradesFile, equityFile, written>>
    /\ UNCHANGED <<obs, crashes, breaker, response, other>>

\* a cycle of a process that lives on: the cache is the one it has built
StartCycle(fetched) ==
    /\ LoadAndFetch(fetched)
    /\ UNCHANGED price_history_cache

\* lines 347-354
UpdateHistory ==
    /\ pc = "loop" /\ step = "history"
    /\ LET id == cur.id
           h == Append(price_history_cache[id], YesPrice(cur))
       IN price_history_cache' =
              [price_history_cache EXCEPT ![id] = LastN(h, HistoryCap)]
    /\ obs' = [obs EXCEPT ![cur.id] = @ + 1]
    /\ Advance("history")
    /\ UNCHANGED <<markets, positions, posFile, tradesFile, equityFile, pre,
                   last, rerun, written, crashes, breaker, response, other>>

\* line 355
MarkToMarket ==
    /\ pc = "loop" /\ step = "mark"
    /\ positions' = update_position_pnl(positions, cur)
    /\ Advance("mark")
    /\ UNCHANGED <<markets, price_history_cache, posFile, tradesFile, equityFile,
                   obs, pre, last, rerun, written, crashes, breaker,
                   response, other>>

\* lines 356-358
CheckExit ==
    /\ pc = "loop" /\ step = "exit"
    /\ LET ex == check_exit_conditions(positions, cur)
           r == close_position(positions, cur, <<ex[2], ex[3]>>)
       IN IF ex[1] /\ r.ok
          THEN /\ positions' = r.doc
               /\ tradesFile' = LogTrade(tradesFile, r.trade)
               /\ breaker' = IF breaker = "vetoed" /\ r.trade[1].realized_pnl > 0
                             THEN "reset" ELSE breaker
          ELSE UNCHANGED <<positions, tradesFile, breaker>>
    /\ Advance("exit")
    /\ UNCHANGED <<markets, price_history_cache, posFile, equityFile, obs, pre,
                   last, rerun, written, crashes, response, other>>

\* lines 359-363
CheckEntry ==
    /\ pc = "loop" /\ step = "entry"
    /\ LET sig == generate_signal(cur, price_history_cache[cur.id])
           r == execute_trade(positions, cur, sig[1], sig[2])
       IN IF ~has_position(positions, cur.id) /\ sig[1] # "None"
          THEN /\ positions' = r.doc
               /\ tradesFile' = IF r.ok THEN LogTrade(tradesFile, r.trade) ELSE tradesFile
               /\ breaker' = IF r.why = "circuit_breaker" /\ breaker = "armed" THEN "vetoed"
                             ELSE IF r.ok /\ breaker = "reset" THEN "reaccepted"
                             ELSE breaker
          ELSE UNCHANGED <<positions, tradesFile, breaker>>
    /\ Advance("entry")
    /\ UNCHANGED <<markets, price_history_cache, posFile, equityFile, obs, pre,
                   last, rerun, written, crashes, response, other>>

\* lines 366-367
Persist ==
    /\ pc = "persist"
    /\ LET doc == RecomputeEquity(positions)
       IN /\ positions' = doc
          /\ posFile' = save_positions(doc)
          /\ written' = OkFile(doc)
    /\ pc' = "equity"
    /\ UNCHANGED <<step, markets, idx, price_history_cache, tradesFile, equityFile,
                   obs, pre, last, rerun, crashes, breaker, response, other>>

\* lines 369-391
AppendEquity ==
    /\ pc = "equity"
    /\ equityFile' = OkFile(Append(load_equity(equityFile), EquityEntry(positions)))
    /\ pc' = "idle"
    /\ last' = Returned(markets)
    /\ positions' = DefaultPortfolio
    /\ markets' = <<>>
    /\ idx' = 0
    /\ UNCHANGED <<step, price_history_cache, posFile, tradesFile, obs, pre, rerun,
                   written, crashes, breaker, response, other>>

Next ==
    \/ \E fetched \in Feeds : WithinBudget(fetched) /\ StartCycle(fetched)
    \/ UpdateHistory
    \/ MarkToMarket
    \/ CheckExit
    \/ CheckEntry
    \/ Persist
    \/ AppendEquity

Spec == Init /\ [][Next]_vars

NextDeep ==
    \/ \E fetched \in DeepFeeds : WithinDeepBudget(fetched) /\ StartCycle(fetched)
    \/ UpdateHistory
    \/ MarkToMarket
    \/ CheckExit
    \/ CheckEntry
    \/ Persist
    \/ AppendEquity

SpecDeep == InitDeep /\ [][NextDeep]_vars

\* ---------------------------------------------------------------- interruption
\* The process is stopped between two statements of a cycle.  An exception
\* that a host loop catches keeps the host's price cache (keep); a killed
\* process loses it.  The list of the interrupted cycle is remembered to
\* recognise a repetition of the same feed.
Interrupt(keep) ==
    /\ pc \in {"loop", "persist", "equity"}
    /\ crashes < MaxCrashes
    /\ last' = IF pc = "equity" THEN "interrupted_saved" ELSE "interrupted"
    /\ pc' = "idle"
    /\ step' = "none"
    /\ idx' = 0
    /\ positions' = DefaultPortfolio
    /\ markets' = IF pc = "equity" THEN <<>> ELSE markets
    /\ price_history_cache' = IF keep THEN price_history_cache ELSE EmptyCache
    /\ crashes' = crashes + 1
    /\ UNCHANGED <<posFile, tradesFile, equityFile, obs, pre, rerun, written, breaker,
                   response, other>>

\* The process is stopped inside save_positions, after open(..., 'w') has
\* truncated the file and before json.dump has written all of it.
InterruptSave(keep) ==
    /\ pc = "persist"
    /\ crashes < MaxCrashes
    /\ posFile' = TornFile(DefaultPortfolio)
    /\ last' = "interrupted_save"
    /\ pc' = "idle"
    /\ step' = "none"
    /\ idx' = 0
    /\ positions' = DefaultPortfolio
    /\ price_history_cache' = IF keep THEN price_history_cache ELSE EmptyCache
    /\ crashes' = crashes + 1
    /\ UNCHANGED <<markets, tradesFile, equityFile, obs, pre, rerun, written, breaker,
                   response, other>>

NextCrash ==
    \/ \E fetched \in SingleFeeds : WithinBudget(fetched) /\ StartCycle(fetched)
    \/ UpdateHistory
    \/ MarkToMarket
    \/ CheckExit
    \/ CheckEntry
    \/ Persist
    \/ AppendEquity
    \/ \E keep \in BOOLEAN : Interrupt(keep)
    \/ \E keep \in BOOLEAN : InterruptSave(keep)

SpecCrash == InitCrash /\ [][NextCrash]_vars

\* ---------------------------------------------------------------- raw feed
\* A record of the feed that passes every test of get_crypto_markets.
Good(id, up) ==
    [id |-> id, question |-> "BTC", closed |-> FALSE, active |-> TRUE,
     liquidityNum |-> Number(FeedLiquidity(id)), liquidity |-> FeedLiquidity(id),
     outcomes |-> [parse |-> TRUE, names |-> <<"Up", "Down-">>, strs |-> TRUE],
     outcomePrices |-> [parse |-> TRUE, numeric |-> TRUE, values |-> <<up, 100 - up>>]]

\* The records that differ from a good record in one field.
Variants(g) ==
    {[g EXCEPT !.closed = TRUE], [g EXCEPT !.active = FALSE]}
    \cup {[g EXCEPT !.liquidityNum = x] :
              x \in {Number(MIN_LIQUIDITY - 1), JsonNull, JsonText, Missing}}
    \cup {[g EXCEPT !.liquidity = MIN_LIQUIDITY - 1]}
    \cup {[g EXCEPT !.question = q] : q \in {"Bitcoin", "Gold"}}
    \cup {[g EXCEPT !.outcomes.names = n] :
              n \in {<<"Up", "Down">>, <<"Up", "Down", "Down-">>, <<"+", "-">>}}
    \cup {[g EXCEPT !.outcomes.strs = FALSE], [g EXCEPT !.outcomes.parse = FALSE]}
    \cup {[g EXCEPT !.outcomePrices.parse = FALSE],
          [g EXCEPT !.outcomePrices.numeric = FALSE],
          [g EXCEPT !.outcomePrices.values = <<g.outcomePrices.values[1]>>]}

RawRecords ==
    {Good(id, up) : id \in MarketIds, up \in RawLevels}
    \cup UNION {Variants(Good(2, up)) : up \in RawLevels}

FailureKinds == {"timeout", "fetch_error", "not_json", "not_a_list"}

Responses ==
    {[kind |-> k, body |-> <<>>] : k \in FailureKinds}
    \cup {[kind |-> "ok", body |-> b] : b \in UNION {[1..n -> RawRecords] : n \in 0..MaxRaw}}

InitFilter ==
    /\ InitRun
    /\ \E w \in WarmLevels : WarmStart(w)
    /\ response \in Responses
    /\ pre = Snapshot

\* markets = get_crypto_markets()
Fetch ==
    /\ WithinBudget(get_crypto_markets(response))
    /\ StartCycle(get_crypto_markets(response))

NextFilter ==
    \/ Fetch
    \/ UpdateHistory
    \/ MarkToMarket
    \/ CheckExit
    \/ CheckEntry
    \/ Persist
    \/ AppendEquity

SpecFilter == InitFilter /\ [][NextFilter]_vars

\* ---------------------------------------------------------------- write failures
\* The store is unwritable: open(..., 'w') raises and leaves the file as it
\* was.  close_position has credited the cash and moved the loss counter
\* (lines 305-306) when save_trades raises on line 321; the except clause
\* of line 327 returns False and the position is not popped.
close_position_unlogged(doc, market) ==
    LET i == FirstMatch(doc.positions, market.id, 1)
        position == doc.positions[i]
        sell_amount == (position.shares * YesPrice(market)) \div 100
        losses == IF position.unrealized_pnl > 0 THEN 0 ELSE doc.consecutive_losses + 1
    IN [doc EXCEPT !.cash = doc.cash + sell_amount, !.consecutive_losses = losses]

\* save_trades raises inside close_position; the loop goes on
CheckExitFail ==
    /\ pc = "loop" /\ step = "exit"
    /\ crashes < MaxCrashes
    /\ check_exit_conditions(positions, cur)[1]
    /\ has_position(positions, cur.id)
    /\ positions' = close_position_unlogged(positions, cur)
    /\ last' = "write_failed"
    /\ crashes' = crashes + 1
    /\ Advance("exit")
    /\ UNCHANGED <<markets, price_history_cache, posFile, tradesFile, equityFile, obs,
                   pre, rerun, written, breaker, response, other>>

\* save_trades raises inside execute_trade (line 275) after the position
\* was appended and the cash deducted (lines 261-262); the except clause of
\* line 278 returns False and the loop goes on
CheckEntryFail ==
    /\ pc = "loop" /\ step = "entry"
    /\ crashes < MaxCrashes
    /\ ~has_position(positions, cur.id)
    /\ LET sig == generate_signal(cur, price_history_cache[cur.id])
           r == execute_trade(positions, cur, sig[1], sig[2])
       IN /\ r.ok
          /\ positions' = r.doc
    /\ last' = "write_failed"
    /\ crashes' = crashes + 1
    /\ Advance("entry")
    /\ UNCHANGED <<markets, price_history_cache, posFile, tradesFile, equityFile, obs,
                   pre, rerun, written, breaker, response, other>>

\* the cycle is left by an exception that __main__ reports (line 403)
Abort ==
    /\ pc' = "idle"
    /\ step' = "none"
    /\ idx' = 0
    /\ positions' = DefaultPortfolio
    /\ markets' = <<>>
    /\ last' = "failed"
    /\ crashes' = crashes + 1

\* save_positions raises on line 367
PersistFail(keep) ==
    /\ pc = "persist"
    /\ crashes < MaxCrashes
    /\ Abort
    /\ price_history_cache' = IF keep THEN price_history_cache ELSE EmptyCache
    /\ UNCHANGED <<posFile, tradesFile, equityFile, obs, pre, rerun, written, breaker,
                   response, other>>

\* the write of the equity curve raises on line 387
AppendEquityFail(keep) ==
    /\ pc = "equity"
    /\ crashes < MaxCrashes
    /\ Abort
    /\ price_history_cache' = IF keep THEN price_history_cache ELSE EmptyCache
    /\ UNCHANGED <<posFile, tradesFile, equityFile, obs, pre, rerun, written, breaker,
                   response, other>>

\* The process is stopped inside save_trades, after open(..., 'w') has
\* truncated the trade log and before json.dump has written all of it.
InterruptTrades(keep) ==
    /\ pc = "loop"
    /\ crashes < MaxCrashes
    /\ \/ /\ step = "exit"
          /\ check_exit_conditions(positions, cur)[1]
          /\ has_position(positions, cur.id)
       \/ /\ step = "entry"
          /\ ~has_position(positions, cur.id)
          /\ LET sig == generate_signal(cur, price_history_cache[cur.id])
             IN execute_trade(positions, cur, sig[1], sig[2]).ok
    /\ tradesFile' = TornFile(<<>>)
    /\ last' = "interrupted_log"
    /\ pc' = "idle"
    /\ step' = "none"
    /\ idx' = 0
    /\ positions' = DefaultPortfolio
    /\ price_history_cache' = IF keep THEN price_history_cache ELSE EmptyCache
    /\ crashes' = crashes + 1
    /\ UNCHANGED <<markets, posFile, equityFile, obs, pre, rerun, written, breaker,
                   response, other>>

NextFault ==
    \/ \E fetched \in SingleFeeds : WithinBudget(fetched) /\ StartCycle(fetched)
    \/ UpdateHistory
    \/ MarkToMarket
    \/ CheckExit
    \/ CheckEntry
    \/ Persist
    \/ AppendEquity
    \/ CheckExitFail
    \/ CheckEntryFail
    \/ \E keep \in BOOLEAN : PersistFail(keep)
    \/ \E keep \in BOOLEAN : AppendEquityFail(keep)
    \/ \E keep \in BOOLEAN : InterruptTrades(keep)

SpecFault == Init /\ [][NextFault]_vars

\* ---------------------------------------------------------------- overlapping cycles
\* A second process (a cron run of __main__, whose price cache starts empty
\* on line 396) runs one cycle while the cycle of the first process is
\* between its load and its save.  Nothing in the engine makes it wait.
\* The loop body of lines 347-363 for one market, in a process whose
\* history of the market is the price just appended.
OtherLoop(doc, market) ==
    LET history == <<YesPrice(market)>>
        marked == update_position_pnl(doc, market)
        ex == check_exit_conditions(marked, market)
        closed == close_position(marked, market, <<ex[2], ex[3]>>)
        exited == IF ex[1] /\ closed.ok
                  THEN [doc |-> closed.doc, trades |-> closed.trade]
                  ELSE [doc |-> marked, trades |-> <<>>]
        sig == generate_signal(market, history)
        entered == execute_trade(exited.doc, market, sig[1], sig[2])
    IN IF ~has_position(exited.doc, market.id) /\ sig[1] # "None"
       THEN [doc |-> entered.doc, trades |-> exited.trades \o entered.trade]
       ELSE exited

\* positions = load_positions() ... the loop, for a feed of one listing
OtherStart(fetched) ==
    /\ pc \in {"loop", "persist"}
    /\ other.state = "none"
    /\ Len(fetched) = 1
    /\ LET r == OtherLoop(load_positions(posFile), fetched[1])
       IN /\ other' = [state |-> "loaded", doc |-> r.doc]
          /\ tradesFile' = IF r.trades = <<>> THEN tradesFile
                           ELSE LogTrade(tradesFile, r.trades)
    /\ UNCHANGED <<pc, step, markets, idx, positions, price_history_cache, posFile,
                   equityFile, obs, pre, last, rerun, written, crashes, breaker, response>>

\* the document the second process saves on line 367: the one in its memory
OtherDocumentReloaded(file, o) == load_positions(file)

OtherDocument(file, o) == o.doc

\* lines 366-388 of the second process
OtherSave ==
    /\ other.state = "loaded"
    /\ LET doc == RecomputeEquity(OtherDocument(posFile, other))
       IN /\ posFile' = save_positions(doc)
          /\ written' = OkFile(doc)
          /\ equityFile' = OkFile(Append(load_equity(equityFile), EquityEntry(doc)))
    /\ other' = [other EXCEPT !.state = "saved"]
    /\ UNCHANGED <<pc, step, markets, idx, positions, price_history_cache, tradesFile,
                   obs, pre, last, rerun, crashes, breaker, response>>

WithinOverlapBudget(fetched) == obs[1] + obs[2] + Len(fetched) <= MaxObsOverlap

NextOverlap ==
    \/ \E fetched \in SingleFeeds : WithinOverlapBudget(fetched) /\ StartCycle(fetched)
    \/ UpdateHistory
    \/ MarkToMarket
    \/ CheckExit
    \/ CheckEntry
    \/ Persist
    \/ AppendEquity
    \/ \E fetched \in SingleFeeds : OtherStart(fetched)
    \/ OtherSave

SpecOverlap == Init /\ [][NextOverlap]_vars

\* ---------------------------------------------------------------- cron
\* The crontab line starts a new process for every cycle (line 533).  Its
\* __main__ block creates the cache on line 396 and runs one cycle.
\* price_history_cache = {}
NewCacheKept(cache) == cache

NewCache(cache) == EmptyCache

Main(fetched) ==
    /\ LoadAndFetch(fetched)
    /\ price_history_cache' = NewCache(price_history_cache)

CronMarkets == {Market(1, 20), Market(2, 26)}

CronFeeds == UNION {[1..n -> CronMarkets] : n \in 0..MaxCronFeed}

WithinCronBudget(fetched) ==
    obs[1] + obs[2] + Len(SelectMarkets(fetched)) <= MaxCronObs

InitCron ==
    /\ InitRun
    /\ response = NoResponse
    /\ ColdStart
    /\ pre = Snapshot

NextCron ==
    \/ pc = "idle" /\ \E fetched \in CronFeeds : WithinCronBudget(fetched) /\ Main(fetched)
    \/ UpdateHistory
    \/ MarkToMarket
    \/ CheckExit
    \/ CheckEntry
    \/ Persist
    \/ AppendEquity

SpecCron == InitCron /\ [][NextCron]_vars

\* ---------------------------------------------------------------- a portfolio found on disk
\* The engine starts over a portfolio document it did not write in this
\* run: one position of market 1, bought for the position size at
\* LoadedEntry, whose stop and target are read from the document.
LoadedEntry == 20

LoadedLevels == {18, 19, 20, 21, 32}

LoadedStops == {0, REV_stop_loss, MR_stop_loss}

LoadedTargets == {0, REV_profit_target, MR_profit_target}

LoadedPortfolio(stop, target) ==
    LET bought == execute_trade(DefaultPortfolio, Market(1, LoadedEntry), "BUY",
                                "mean_reversion").doc
        position == [bought.positions[1] EXCEPT !.stop_loss_pct = stop,
                                                !.profit_target_pct = target]
    IN RecomputeEquity([bought EXCEPT !.positions = <<position>>])

LoadedTrades ==
    execute_trade(DefaultPortfolio, Market(1, LoadedEntry), "BUY", "mean_reversion").trade

InitLoaded ==
    /\ pc = "idle"
    /\ step = "none"
    /\ markets = <<>>
    /\ idx = 0
    /\ positions = DefaultPortfolio
    /\ obs = [id \in MarketIds |-> 0]
    /\ last = "none"
    /\ rerun = FALSE
    /\ breaker = "armed"
    /\ crashes = 0
    /\ other = NoOther
    /\ response = NoResponse
    /\ tradesFile = OkFile(LoadedTrades)
    /\ price_history_cache = [id \in MarketIds |-> Repeat(LoadedEntry, WarmLen)]
    /\ \E stop \in LoadedStops, target \in LoadedTargets :
           /\ posFile = OkFile(LoadedPortfolio(stop, target))
           /\ written = OkFile(LoadedPortfolio(stop, target))
    /\ equityFile = OkFile(Repeat(EquityEntry(DefaultPortfolio), WarmLen))
    /\ pre = Snapshot

LoadedFeeds == {<<>>} \cup {<<Market(1, up)>> : up \in LoadedLevels}

WithinLoadedBudget(fetched) == obs[1] + obs[2] + Len(fetched) <= MaxObsLoaded

NextLoaded ==
    \/ \E fetched \in LoadedFeeds : WithinLoadedBudget(fetched) /\ StartCycle(fetched)
    \/ UpdateHistory
    \/ MarkToMarket
    \/ CheckExit
    \/ CheckEntry
    \/ Persist
    \/ AppendEquity

SpecLoaded == InitLoaded /\ [][NextLoaded]_vars

\* ---------------------------------------------------------------- histories
\* The process has run n cycles in which every market was listed at the
\* price w, n below the regime window: each of them saved the default
\* portfolio.  The cycles that follow list market 1 at any level, the
\* prices 0 and 0.40 included.
SignalWarm == {0, 20, 30}

SignalWarmLens == {RegimeWindow - 3, RegimeWindow - 2}

SignalLevels == {0, 20, 26, 39, 40, 90}

InitSignal ==
    /\ InitRun
    /\ response = NoResponse
    /\ \E w \in SignalWarm, n \in SignalWarmLens :
           /\ price_history_cache = [id \in MarketIds |-> Repeat(w, n)]
           /\ equityFile = OkFile(Repeat(EquityEntry(DefaultPortfolio), n))
    /\ posFile = OkFile(DefaultPortfolio)
    /\ written = OkFile(DefaultPortfolio)
    /\ pre = Snapshot

SignalFeeds == {<<>>} \cup {<<Market(1, up)>> : up \in SignalLevels}

WithinSignalBudget(fetched) == obs[1] + obs[2] + Len(fetched) <= MaxObsSignal

NextSignal ==
    \/ \E fetched \in SignalFeeds : WithinSignalBudget(fetched) /\ StartCycle(fetched)
    \/ UpdateHistory
    \/ MarkToMarket
    \/ CheckExit
    \/ CheckEntry
    \/ Persist
    \/ AppendEquity

SpecSignal == InitSignal /\ [][NextSignal]_vars

\* ---------------------------------------------------------------- long histories
\* The process has run n cycles in which every market was listed at the
\* price w, n just below the cap of the history and w at or above the
\* entry threshold: no rule fired, each cycle saved the default portfolio.
\* The cycles that follow carry market 1 past the cap.
RollWarm == {50, 90}

RollWarmLens == {HistoryCap - 2, HistoryCap - 1}

RollLevels == {26, 50, 60, 90}

InitRoll ==
    /\ InitRun
    /\ response = NoResponse
    /\ \E w \in RollWarm, n \in RollWarmLens :
           /\ price_history_cache = [id \in MarketIds |-> Repeat(w, n)]
           /\ equityFile = OkFile(Repeat(EquityEntry(DefaultPortfolio), n))
    /\ posFile = OkFile(DefaultPortfolio)
    /\ written = OkFile(DefaultPortfolio)
    /\ pre = Snapshot

RollFeeds == {<<>>} \cup {<<Market(1, up)>> : up \in RollLevels}

WithinRollBudget(fetched) == obs[1] + obs[2] + Len(fetched) <= MaxObsRoll

NextRoll ==
    \/ pc = "idle" /\ \E fetched \in RollFeeds : WithinRollBudget(fetched) /\ StartCycle(fetched)
    \/ UpdateHistory
    \/ MarkToMarket
    \/ CheckExit
    \/ CheckEntry
    \/ Persist
    \/ AppendEquity

SpecRoll == InitRoll /\ [][NextRoll]_vars

\* ---------------------------------------------------------------- execute_trade, called
\* execute_trade as a function of its arguments: the portfolio of the
\* process, any market record, the signal BUY and either strategy.  The
\* caller of line 363 is left out, and with it the test of line 359.
CallLevels == {0, 20, 50}

CallMarkets == {Market(id, up) : id \in MarketIds, up \in CallLevels}

CallStrategies == {"mean_reversion", "reversal"}

InitCall ==
    /\ InitRun
    /\ response = NoResponse
    /\ ColdStart
    /\ pre = Snapshot

Call(market, strategy) ==
    /\ pc = "idle"
    /\ Len(positions.positions) < MaxCalls
    /\ LET r == execute_trade(positions, market, "BUY", strategy)
       IN /\ positions' = r.doc
          /\ tradesFile' = IF r.ok THEN LogTrade(tradesFile, r.trade) ELSE tradesFile
    /\ UNCHANGED <<pc, step, markets, idx, price_history_cache, posFile, equityFile,
                   obs, pre, last, rerun, written, crashes, breaker, response, other>>

NextCall == \E market \in CallMarkets, strategy \in CallStrategies : Call(market, strategy)

SpecCall == InitCall /\ [][NextCall]_vars

\* ---------------------------------------------------------------- properties
PersistedDoc == load_positions(posFile)

TradeLog == load_trades(tradesFile)

EquityCurve == load_equity(equityFile)

EmptyEnded == pc = "idle" /\ last \in {"empty", "empty_again"}

OneEach(ps) ==
    \A i, j \in 1..Len(ps) : i # j => ps[i].market_id # ps[j].market_id

\* C1: after every cycle that returned, with or without instruments, the
\* persisted portfolio has equity = cash + sum of unrealized_pnl over its
\* open positions.
C1_EquityIdentity ==
    (pc = "idle" /\ last \in {"completed", "empty", "empty_again"})
        => PersistedDoc.equity = PersistedDoc.cash + SumUnrealized(PersistedDoc.positions)

\* an empty cycle ran over a persisted portfolio that holds a position with
\* a non-zero unrealized PnL
C1_Witness ==
    /\ EmptyEnded
    /\ \E i \in 1..Len(PersistedDoc.positions) :
           PersistedDoc.positions[i].unrealized_pnl # 0

\* C2: the in-memory portfolio of a running cycle and the persisted
\* portfolio hold at most one open position per market id.
C2_OnePositionPerMarket ==
    OneEach(positions.positions) /\ OneEach(PersistedDoc.positions)

\* the second listing of a market in one feed reaches the entry check while
\* the market's position is open and its signal is BUY
C2_Witness ==
    /\ pc = "loop" /\ step = "entry" /\ idx >= 2
    /\ markets[idx - 1].id = cur.id
    /\ has_position(positions, cur.id)
    /\ generate_signal(cur, price_history_cache[cur.id])[1] = "BUY"

NonDecreasingDrawdown(curve) ==
    \A i \in 1..(Len(curve) - 1) : curve[i].max_drawdown <= curve[i + 1].max_drawdown

\* C3: the persisted high_water and max_drawdown never decrease from one
\* save to the next, and the max_drawdown of the equity-curve entries is
\* non-decreasing along the curve.
C3_Monotone ==
    [][/\ load_positions(posFile').high_water >= load_positions(posFile).high_water
       /\ load_positions(posFile').max_drawdown >= load_positions(posFile).max_drawdown
       /\ NonDecreasingDrawdown(load_equity(equityFile'))]_vars

\* the high-water mark has risen above the bankroll and the drawdown has
\* risen between two entries of the curve
C3_Witness ==
    /\ pc = "idle"
    /\ PersistedDoc.high_water > BANKROLL
    /\ \E i \in 1..(Len(EquityCurve) - 1) :
           EquityCurve[i].max_drawdown < EquityCurve[i + 1].max_drawdown

C5_EmptyFeedIdempotent ==
    EmptyEnded =>
        /\ TradeLog = load_trades(pre.trades)
        /\ PersistedDoc.cash = load_positions(pre.pos).cash
        /\ PersistedDoc.positions = load_positions(pre.pos).positions
        /\ PersistedDoc.consecutive_losses = load_positions(pre.pos).consecutive_losses

\* a second successive empty cycle ran over a portfolio with an open
\* position and a non-empty trade log
C5_Witness ==
    /\ pc = "idle" /\ last = "empty_again"
    /\ Len(PersistedDoc.positions) > 0
    /\ Len(TradeLog) > 0

\* consecutive_losses as the engine sees it
Losses == IF pc = "idle" THEN PersistedDoc.consecutive_losses
          ELSE positions.consecutive_losses

AtEntry == pc = "loop" /\ step = "entry"

AtExit == pc = "loop" /\ step = "exit"

SignalsBuy ==
    /\ ~has_position(positions, cur.id)
    /\ generate_signal(cur, price_history_cache[cur.id])[1] = "BUY"

Appended(type) ==
    /\ Len(load_trades(tradesFile')) = Len(TradeLog) + 1
    /\ load_trades(tradesFile')[Len(TradeLog) + 1].type = type

WinningClose ==
    /\ AtExit
    /\ Appended("SELL")
    /\ load_trades(tradesFile')[Len(TradeLog) + 1].realized_pnl > 0

\* C6: while consecutive_losses >= 3 the entry check adds no position,
\* deducts no cash and writes no record; the counter leaves that range only
\* by a close with realized PnL > 0, which sets it to 0; and a BUY signal
\* met with a counter below 3 is accepted.
C6_CircuitBreaker ==
    [][/\ (AtEntry /\ positions.consecutive_losses >= CIRCUIT_BREAKER) =>
              /\ positions'.positions = positions.positions
              /\ positions'.cash = positions.cash
              /\ tradesFile' = tradesFile
       /\ (Losses >= CIRCUIT_BREAKER /\ Losses' < CIRCUIT_BREAKER) => WinningClose
       /\ WinningClose => positions'.consecutive_losses = 0
       /\ (AtEntry /\ SignalsBuy /\ positions.consecutive_losses < CIRCUIT_BREAKER) =>
              /\ Len(positions'.positions) = Len(positions.positions) + 1
              /\ positions'.cash < positions.cash
              /\ Appended("BUY")]_vars

\* a BUY was vetoed by the tripped breaker, a winning close reset the
\* counter, and a BUY after that was accepted
C6_Witness == breaker = "reaccepted"

\* C7 as stated: after a cycle interrupted before its save the three files
\* are what they were when the cycle started.
C7_InterruptLeavesNoTrace ==
    (pc = "idle" /\ last = "interrupted") =>
        /\ posFile = pre.pos
        /\ tradesFile = pre.trades
        /\ equityFile = pre.equity

Count(type, question) ==
    Cardinality({i \in 1..Len(TradeLog) :
                     TradeLog[i].type = type /\ TradeLog[i].market = question})

Open(id) ==
    Cardinality({i \in 1..Len(PersistedDoc.positions) :
                     PersistedDoc.positions[i].market_id = id})

\* C8 as stated: when a cycle that repeats the feed of an interrupted cycle
\* has returned, the trade log holds each open and each close once: per
\* market, BUY records minus SELL records is the number of open positions.
C8_RerunDoesNotDuplicate ==
    (pc = "idle" /\ last = "completed" /\ rerun) =>
        \A id \in MarketIds : Count("BUY", id) - Count("SELL", id) = Open(id)

\* C9 as stated: load_positions returns the last completely written
\* document, and the default only when none was ever written.
C9_LoadReturnsLastWritten ==
    /\ written.state = "ok" => load_positions(posFile) = written.data
    /\ written.state # "ok" => load_positions(posFile) = DefaultPortfolio

\* C10: the statements of the loop body run in the order history, mark,
\* exit, entry for one market; at the exit check and at the entry check the
\* market's price is the last of its history and every position of the
\* market is marked at that price.
MarkedAtFeedPrice ==
    (pc = "loop" /\ step \in {"exit", "entry"}) =>
        /\ price_history_cache[cur.id] # <<>>
        /\ price_history_cache[cur.id][Len(price_history_cache[cur.id])] = YesPrice(cur)
        /\ \A i \in 1..Len(positions.positions) :
               positions.positions[i].market_id = cur.id =>
                   /\ positions.positions[i].current_price = YesPrice(cur)
                   /\ positions.positions[i].unrealized_pnl =
                          (positions.positions[i].shares * YesPrice(cur)) \div 100
                          - (positions.positions[i].shares
                                 * positions.positions[i].entry_price) \div 100

C10_LoopOrder ==
    [][/\ (pc' = "loop" /\ step' = "mark") => (pc = "loop" /\ step = "history" /\ idx' = idx)
       /\ (pc' = "loop" /\ step' = "exit") => (pc = "loop" /\ step = "mark" /\ idx' = idx)
       /\ (pc' = "loop" /\ step' = "entry") => (pc = "loop" /\ step = "exit" /\ idx' = idx)
       /\ (pc' = "loop" /\ step' = "history") => (pc = "idle" \/ (pc = "loop" /\ step = "entry"))
       /\ MarkedAtFeedPrice']_vars

\* a cycle of one listing closed the market's position at the exit check
\* and opened a new one at the entry check
C10_Witness ==
    /\ pc = "persist" /\ Len(markets) = 1
    /\ Len(TradeLog) = Len(load_trades(pre.trades)) + 2
    /\ TradeLog[Len(TradeLog) - 1].type = "SELL"
    /\ TradeLog[Len(TradeLog)].type = "BUY"
    /\ TradeLog[Len(TradeLog)].market = TradeLog[Len(TradeLog) - 1].market

\* a position of the market being processed has reached its profit target
\* or its stop loss
ExitDue ==
    \E i \in 1..Len(positions.positions) :
        /\ positions.positions[i].market_id = cur.id
        /\ \/ positions.positions[i].unrealized_pnl_pct
                  >= positions.positions[i].profit_target_pct
           \/ positions.positions[i].unrealized_pnl_pct
                  <= -positions.positions[i].stop_loss_pct

\* C11: while consecutive_losses >= 3, at the exit check of a listed market
\* its positions are marked at the feed price, and a position that has
\* reached its profit target or stop loss is closed by that step: it leaves
\* the portfolio and a SELL record is appended.
C11_BreakerBlocksEntriesOnly ==
    [][(AtExit /\ positions.consecutive_losses >= CIRCUIT_BREAKER) =>
           /\ MarkedAtFeedPrice
           /\ ExitDue => /\ Len(positions'.positions) = Len(positions.positions) - 1
                         /\ Appended("SELL")]_vars

\* after a BUY was vetoed by the tripped breaker, a position was closed at
\* its profit target: the cycle stands at the entry check that follows
C11_Witness ==
    /\ AtEntry /\ breaker = "reset"
    /\ positions.consecutive_losses = 0
    /\ Len(TradeLog) > 0
    /\ TradeLog[Len(TradeLog)].type = "SELL"
    /\ TradeLog[Len(TradeLog)].realized_pnl > 0

\* C12 as stated: when the loop of a cycle has ended, every open position
\* has been marked and checked for exit in that cycle, that is, its market
\* is one of the markets the loop processed.
C12_EveryPositionMarkedEachCycle ==
    (pc = "persist") =>
        \A i \in 1..Len(positions.positions) :
            \E k \in 1..Len(markets) : markets[k].id = positions.positions[i].market_id

\* C13 as stated: a cycle in which a write to the store has failed does not
\* save the portfolio and does not return as a completed cycle.
C13_WriteFailureIsFatal ==
    [][(last = "write_failed") => (posFile' = posFile /\ last' # "completed")]_vars

IsPrefix(s, t) == Len(s) <= Len(t) /\ SubSeq(t, 1, Len(s)) = s

\* C17 as stated: every step leaves the records the trade log held as a
\* prefix of the records it holds afterwards.
C17_TradeLogAppendOnly ==
    [][IsPrefix(load_trades(tradesFile), load_trades(tradesFile'))]_vars

FetchFailed == response.kind \in FailureKinds

\* C14: when the request fails, times out or delivers an unparseable body,
\* get_crypto_markets returns the empty list, no cycle enters its loop or
\* ends otherwise than by returning, and the portfolio document and the
\* trade log stay as they were.
C14_FetchFailureIsEmptyCycle ==
    FetchFailed =>
        /\ get_crypto_markets(response) = <<>>
        /\ pc = "idle" /\ last \in {"none", "empty", "empty_again"}
        /\ posFile = pre.pos
        /\ tradesFile = pre.trades

\* two cycles have run against a request that timed out
C14_Witness == response.kind = "timeout" /\ pc = "idle" /\ last = "empty_again"

\* C15 as stated: a cycle finds no instrument only if no record of the
\* feed passes the filter on its own.
C15_MalformedDroppedAlone ==
    (response.kind = "ok" /\ pc = "idle" /\ last = "empty") =>
        \A i \in 1..Len(response.body) : Examine(response.body[i]) # "keep"

\* kw occurs in text, in any letter case
OccursAnyCase(kw, text) == IsSubstring(upper(Chars(kw)), upper(Chars(text)))

\* a record as C18 describes it
ClaimedMatch(market) ==
    /\ market.active /\ ~market.closed
    /\ market.liquidityNum.kind = "number"
    /\ market.liquidityNum.value >= MIN_LIQUIDITY
    /\ \E kw \in crypto_keywords : OccursAnyCase(kw, market.question)
    /\ market.outcomes.parse /\ market.outcomes.strs
    /\ market.outcomes.names = <<"Up", "Down">>
    /\ market.outcomePrices.parse /\ market.outcomePrices.numeric
    /\ Len(market.outcomePrices.values) = 2

\* C18 as stated: a cycle whose feed holds only records as C18 describes
\* them finds every one of them.
C18_FilterReturnsUpDown ==
    (/\ response.kind = "ok" /\ response.body # <<>>
     /\ \A i \in 1..Len(response.body) : ClaimedMatch(response.body[i])
     /\ last # "none") =>
        /\ last \notin {"empty", "empty_again"}
        /\ Len(get_crypto_markets(response)) = Len(response.body)

\* C16 as stated: the entry check of a market whose liquidity is below
\* MIN_LIQUIDITY adds no position, leaves the cash and writes no record.
C16_LowLiquidityVetoed ==
    [][(AtEntry /\ cur.liquidity < MIN_LIQUIDITY) =>
           (positions' = positions /\ tradesFile' = tradesFile)]_vars

\* C19: a second cycle can load while the first is between its load and its
\* save; when it saves, the portfolio document becomes the one it computed
\* from its own load, whatever was saved in between, while the trade log
\* keeps the records of both.
C19_LastSaveWins ==
    [][(other.state = "loaded" /\ other'.state = "saved") =>
           /\ load_positions(posFile') = RecomputeEquity(other.doc)
           /\ tradesFile' = tradesFile]_vars

\* both cycles have ended; the trade log holds the first cycle's BUY while
\* the persisted portfolio has no position and the whole bankroll as cash
C19_Witness ==
    /\ other.state = "saved" /\ pc = "idle" /\ last = "completed"
    /\ PersistedDoc.positions = <<>>
    /\ PersistedDoc.cash = BANKROLL
    /\ Len(TradeLog) = 1
    /\ TradeLog[1].type = "BUY"

\* C20 as stated: in the persisted portfolio high_water is at least equity.
C20_HighWaterAtLeastEquity == PersistedDoc.high_water >= PersistedDoc.equity

Held == IF pc = "idle" THEN PersistedDoc ELSE positions

TrippedAndFlat(doc) ==
    doc.consecutive_losses >= CIRCUIT_BREAKER /\ doc.positions = <<>>

\* C22: once consecutive_losses >= 3 and no position is open, every step of
\* every later cycle leaves the open set empty, the trade log as it is and
\* consecutive_losses unchanged.
C22_TrippedAndFlatIsAbsorbing ==
    [][TrippedAndFlat(Held) =>
           /\ Held'.positions = <<>>
           /\ Held'.consecutive_losses = Held.consecutive_losses
           /\ tradesFile' = tradesFile]_vars

\* a cycle that found the portfolio tripped and without positions stands at
\* the entry check of a market whose signal is BUY
C22_Witness ==
    /\ TrippedAndFlat(load_positions(pre.pos))
    /\ AtEntry /\ SignalsBuy
    /\ TrippedAndFlat(positions)

FeedPrices(market) == {market.outcomes_dict[o] : o \in DOMAIN market.outcomes_dict}

\* C23 as stated: the price the loop uses for a market, and the last price
\* of the market's history once the loop has appended to it, is one of the
\* outcome prices the feed gave for the market.
C23_PriceComesFromFeed ==
    (pc = "loop") =>
        /\ YesPrice(cur) \in FeedPrices(cur)
        /\ step # "history" =>
               price_history_cache[cur.id][Len(price_history_cache[cur.id])]
                   \in FeedPrices(cur)

\* the decision C24 describes for one position
ExitDecision(position) ==
    IF position.unrealized_pnl_pct >= position.profit_target_pct THEN "profit_target"
    ELSE IF position.unrealized_pnl_pct <= -position.stop_loss_pct THEN "stop_loss"
    ELSE "none"

\* C24: the exit check of a market whose position has reached its profit
\* target closes it with the reason profit_target; otherwise, if the
\* position has reached its stop loss, with the reason stop_loss; otherwise
\* it closes nothing.  When both thresholds are reached the reason is
\* profit_target.
C24_ExitDecision ==
    [][(AtExit /\ has_position(positions, cur.id)) =>
           LET position == positions.positions[FirstMatch(positions.positions, cur.id, 1)]
           IN IF ExitDecision(position) = "none"
              THEN positions' = positions /\ tradesFile' = tradesFile
              ELSE /\ Appended("SELL")
                   /\ load_trades(tradesFile')[Len(TradeLog) + 1].exit_reason =
                          <<ExitDecision(position), position.unrealized_pnl_pct>>]_vars

\* a position whose stop and target are both 0 was closed at its entry
\* price: both thresholds were reached and the reason is profit_target
C24_Witness ==
    /\ AtEntry
    /\ load_positions(pre.pos).positions # <<>>
    /\ load_positions(pre.pos).positions[1].stop_loss_pct = 0
    /\ load_positions(pre.pos).positions[1].profit_target_pct = 0
    /\ Len(TradeLog) = Len(load_trades(pre.trades)) + 1
    /\ TradeLog[Len(TradeLog)].type = "SELL"
    /\ TradeLog[Len(TradeLog)].realized_pnl_pct = 0
    /\ TradeLog[Len(TradeLog)].exit_reason[1] = "profit_target"

\* C25: a close of a position of s shares at the price p adds s * p to the
\* cash, appends one SELL record with the realized PnL and the exit reason,
\* removes the position from the open set, and sets consecutive_losses to 0
\* if the realized PnL is > 0 and raises it by 1 otherwise, also when the
\* realized PnL is 0.
C25_CloseContract ==
    [][(AtExit /\ ExitDue) =>
           LET i == FirstMatch(positions.positions, cur.id, 1)
               position == positions.positions[i]
               record == load_trades(tradesFile')[Len(TradeLog) + 1]
           IN /\ positions'.cash = positions.cash + (position.shares * YesPrice(cur)) \div 100
              /\ Appended("SELL")
              /\ record.realized_pnl = position.unrealized_pnl
              /\ record.exit_reason[1] = ExitDecision(position)
              /\ record.shares = position.shares /\ record.price = YesPrice(cur)
              /\ positions'.positions = RemoveAt(positions.positions, i)
              /\ positions'.consecutive_losses =
                     IF position.unrealized_pnl > 0 THEN 0
                     ELSE positions.consecutive_losses + 1]_vars

\* a close with a realized PnL of 0 raised consecutive_losses to 1, and a
\* later close with a gain has set it to 0
C25_Witness ==
    /\ AtEntry
    /\ Len(TradeLog) = 4
    /\ TradeLog[2].type = "SELL" /\ TradeLog[2].realized_pnl = 0
    /\ TradeLog[4].type = "SELL" /\ TradeLog[4].realized_pnl > 0
    /\ load_positions(pre.pos).consecutive_losses = 1
    /\ positions.consecutive_losses = 0

Last(s) == s[Len(s)]

\* C26: an entry check with a BUY signal and the breaker not tripped, at the
\* price p with the cash c, appends one position with amount = c * 0.003,
\* shares = amount / p, unrealized PnL 0 and the stop and target of its
\* strategy, leaves c - amount as cash and appends one BUY record; and no
\* step changes the stop or the target of a position that stays open.
C26_EntryContract ==
    [][/\ (AtEntry /\ SignalsBuy /\ ~BreakerTripped(positions)) =>
              LET strategy == generate_signal(cur, price_history_cache[cur.id])[2]
                  amount == (positions.cash * POSITION_SIZE) \div 1000
                  new == Last(positions'.positions)
              IN /\ Len(positions'.positions) = Len(positions.positions) + 1
                 /\ SubSeq(positions'.positions, 1, Len(positions.positions))
                        = positions.positions
                 /\ new.market_id = cur.id /\ new.entry_price = YesPrice(cur)
                 /\ new.amount = amount
                 /\ new.shares = (amount * 100) \div YesPrice(cur)
                 /\ new.unrealized_pnl = 0 /\ new.unrealized_pnl_pct = 0
                 /\ new.strategy = strategy
                 /\ <<new.stop_loss_pct, new.profit_target_pct>> =
                        IF strategy = "reversal"
                        THEN <<REV_stop_loss, REV_profit_target>>
                        ELSE <<MR_stop_loss, MR_profit_target>>
                 /\ positions'.cash = positions.cash - amount
                 /\ Appended("BUY")
       /\ \A i \in 1..Len(Held.positions) : \A j \in 1..Len(Held'.positions) :
              Held.positions[i].market_id = Held'.positions[j].market_id =>
                  /\ Held'.positions[j].stop_loss_pct = Held.positions[i].stop_loss_pct
                  /\ Held'.positions[j].profit_target_pct
                         = Held.positions[i].profit_target_pct]_vars

\* a position opened by the reversal strategy has been marked in a later
\* cycle and is still open in the portfolio document
C26_Witness ==
    /\ pc = "idle" /\ last = "completed"
    /\ \E i \in 1..Len(PersistedDoc.positions) :
           /\ PersistedDoc.positions[i].strategy = "reversal"
           /\ PersistedDoc.positions[i].stop_loss_pct = REV_stop_loss
           /\ obs[PersistedDoc.positions[i].market_id] = 3

\* C27 as stated: an exit check that changes the cash or consecutive_losses
\* removes the position it has sold from the open set.
C27_CreditOnlyWithRemoval ==
    [][AtExit =>
           ((\/ positions'.cash # positions.cash
             \/ positions'.consecutive_losses # positions.consecutive_losses)
                => Len(positions'.positions) = Len(positions.positions) - 1)]_vars

Records(type) == Cardinality({i \in 1..Len(TradeLog) : TradeLog[i].type = type})

\* C28: between cycles that ran to their end one after the other, from an
\* empty trade log and the default portfolio, the number of BUY records
\* minus the number of SELL records of the trade log is the number of open
\* positions of the portfolio document.
C28_LogMatchesOpenSet ==
    (pc = "idle") => Records("BUY") - Records("SELL") = Len(PersistedDoc.positions)

\* a position was bought, sold and bought again, and the cycle has ended
C28_Witness ==
    /\ pc = "idle" /\ last = "completed"
    /\ Len(TradeLog) = 3
    /\ Records("SELL") = 1
    /\ Len(PersistedDoc.positions) = 1

RECURSIVE SumAmount(_)
SumAmount(ps) == IF ps = <<>> THEN 0 ELSE Head(ps).amount + SumAmount(Tail(ps))

RECURSIVE SumRealized(_)
SumRealized(ts) ==
    IF ts = <<>> THEN 0
    ELSE (IF Head(ts).type = "SELL" THEN Head(ts).realized_pnl ELSE 0)
         + SumRealized(Tail(ts))

WithinThresholds(position) ==
    /\ position.unrealized_pnl_pct > -position.stop_loss_pct
    /\ position.unrealized_pnl_pct < position.profit_target_pct

\* C30 as stated: every open position of the portfolio document has its
\* unrealized fraction strictly between -stop_loss_pct and profit_target_pct.
C30_PersistedWithinThresholds ==
    \A i \in 1..Len(PersistedDoc.positions) : WithinThresholds(PersistedDoc.positions[i])

\* the history the entry check of the current market reads
History == price_history_cache[cur.id]

\* the price k points back from the end of h, the last being 1 point back
Back(h, k) == h[Len(h) - k + 1]

\* the return over the most recent k points of h exceeds pct percent
ReturnAbove(h, k, pct) == (Back(h, 1) - Back(h, k)) * 100 > pct * Back(h, k)

ReturnBelow(h, k, pct) == (Back(h, 1) - Back(h, k)) * 100 < pct * Back(h, k)

\* C31 as stated: for a history of at least 10 points (whose prices 2 and
\* 10 points back are not 0) the reversal rule fires exactly when the return
\* over the last 2 points is > 0.01, the return over the last 10 points is
\* < -0.02 and the regime is bear or volatile.
C31_ReversalRule ==
    (AtEntry /\ Len(History) >= RegimeWindow /\ Back(History, 2) # 0
        /\ Back(History, RegimeWindow) # 0) =>
        (should_enter_reversal(History)[1] <=>
            /\ ReturnAbove(History, 2, REV_momentum_2_threshold)
            /\ ReturnBelow(History, RegimeWindow, REV_momentum_10_threshold)
            /\ detect_market_regime(History) \in {"bear", "volatile"})

\* C32: at the entry check of a market whose history has fewer than 10
\* points the regime is unknown, and the check opens no position, leaves
\* the cash and writes no record, whatever the market's price.
C32_ShortHistoryNoEntry ==
    [][(AtEntry /\ Len(History) < RegimeWindow) =>
           /\ detect_market_regime(History) = "unknown"
           /\ positions' = positions
           /\ tradesFile' = tradesFile]_vars

\* the entry check has passed a market listed below the entry threshold
\* whose 9 points are all at one price, and no position is open
C32_Witness ==
    /\ pc = "persist" /\ Len(markets) = 1
    /\ Len(price_history_cache[markets[1].id]) = RegimeWindow - 1
    /\ \A i \in 1..(RegimeWindow - 1) : price_history_cache[markets[1].id][i] = 20
    /\ YesPrice(markets[1]) < MR_entry_threshold
    /\ positions.positions = <<>>

\* the mean-reversion rule as C33 states it
MeanReversionFires ==
    /\ YesPrice(cur) < MR_entry_threshold
    /\ detect_market_regime(History) \in {"bull", "sideways"}

\* C33: at the entry check of a market without a position, with the breaker
\* not tripped, the signal is BUY with the tag mean_reversion exactly when
\* the mean-reversion rule fires, the tag is reversal only when the
\* mean-reversion rule does not fire and the reversal rule does, and a BUY
\* opens exactly one position, which carries the tag.
C33_SignalPrecedence ==
    [][(AtEntry /\ ~has_position(positions, cur.id) /\ ~BreakerTripped(positions)) =>
           LET sig == generate_signal(cur, History)
           IN /\ MeanReversionFires <=> sig = <<"BUY", "mean_reversion">>
              /\ sig[2] = "reversal" =>
                     /\ ~MeanReversionFires
                     /\ should_enter_reversal(History)[1]
                     /\ sig[1] = "BUY"
              /\ sig[1] = "BUY" =>
                     /\ Len(positions'.positions) = Len(positions.positions) + 1
                     /\ Last(positions'.positions).strategy = sig[2]
              /\ sig[1] # "BUY" => positions' = positions]_vars

\* a market priced below the entry threshold in a bear regime was bought by
\* the reversal rule
C33_Witness ==
    /\ pc = "persist"
    /\ positions.positions # <<>>
    /\ Last(positions.positions).strategy = "reversal"
    /\ Last(positions.positions).entry_price < MR_entry_threshold
    /\ Last(positions.positions).current_price = Last(positions.positions).entry_price

C35_HistoryKeepsLatest ==
    [][IF pc = "loop" /\ step = "history"
       THEN LET h == price_history_cache[cur.id]
                g == price_history_cache'[cur.id]
            IN /\ Len(g) <= HistoryCap
               /\ Last(g) = YesPrice(cur)
               /\ IF Len(h) < HistoryCap
                  THEN g = Append(h, YesPrice(cur))
                  ELSE g = Append(Tail(h), YesPrice(cur))
               /\ \A id \in MarketIds \ {cur.id} :
                      price_history_cache'[id] = price_history_cache[id]
       ELSE price_history_cache' = price_history_cache]_vars

\* a history at the cap that has dropped prices and now ends on a price
\* other than its oldest
C35_Witness ==
    /\ pc = "loop" /\ step = "mark"
    /\ Len(History) = HistoryCap
    /\ obs[cur.id] >= 3
    /\ Last(History) # History[1]
    /\ History[HistoryCap - 1] # Last(History)

AtMark == pc = "loop" /\ step = "mark"

\* a position without its cached fields
Uncached(p) ==
    [p EXCEPT !.current_price = 0, !.unrealized_pnl = 0, !.unrealized_pnl_pct = 0]

\* what mark-to-market leaves alone in the positions, the cash and the
\* loss counter
MarkKeeps ==
    /\ positions'.cash = positions.cash
    /\ positions'.consecutive_losses = positions.consecutive_losses
    /\ Len(positions'.positions) = Len(positions.positions)
    /\ \A i \in 1..Len(positions.positions) :
           LET p == positions.positions[i]
               q == positions'.positions[i]
           IN IF p.market_id = cur.id
              THEN /\ Uncached(q) = Uncached(p)
                   /\ q.current_price = YesPrice(cur)
              ELSE q = p

\* C36, as the code has it: mark-to-market changes the cached fields of
\* the positions of the market and nothing else in any position, the cash,
\* the membership of the open set or the loss counter; with a position of
\* the market it also recomputes the equity of the portfolio and may raise
\* high_water and max_drawdown, without one it changes nothing.
C36_MarkFrame ==
    [][AtMark =>
           /\ MarkKeeps
           /\ positions'.high_water >= positions.high_water
           /\ positions'.max_drawdown >= positions.max_drawdown
           /\ has_position(positions, cur.id) => positions'.equity = ComputeEquity(positions')
           /\ ~has_position(positions, cur.id) => positions' = positions]_vars

\* C36, as stated: mark-to-market changes only the cached fields of the
\* position of the market; everything else in the portfolio stays as it was.
C36_MarkChangesOnlyCachedFields ==
    [][AtMark =>
           /\ MarkKeeps
           /\ [positions' EXCEPT !.positions = positions.positions] = positions]_vars

\* a position has just been marked away from its entry price, and the mark
\* has moved the equity and the high-water mark of the portfolio
C36_Witness ==
    /\ pc = "loop" /\ step = "exit"
    /\ \E i \in 1..Len(positions.positions) :
           /\ positions.positions[i].market_id = cur.id
           /\ positions.positions[i].current_price = YesPrice(cur)
           /\ positions.positions[i].current_price > positions.positions[i].entry_price
           /\ positions.positions[i].unrealized_pnl > 0
    /\ positions.equity > positions.cash
    /\ positions.high_water = positions.equity
    /\ positions.high_water > load_positions(posFile).high_water

\* C37: the cash of the process and the persisted cash are strictly
\* positive before and after every step; no entry check meets the
\* insufficient-cash veto; and a step that adds a position takes exactly
\* 0.3% of the cash, which is at most the cash.
C37_CashStaysPositive ==
    [][/\ positions.cash > 0 /\ positions'.cash > 0
       /\ PersistedDoc.cash > 0 /\ PersistedDoc'.cash > 0
       /\ AtEntry =>
              LET sig == generate_signal(cur, History)
              IN /\ execute_trade(positions, cur, "BUY", "reversal").why # "insufficient_cash"
                 /\ execute_trade(positions, cur, sig[1], sig[2]).why # "insufficient_cash"
                 /\ Len(positions'.positions) > Len(positions.positions) =>
                        /\ positions.cash - positions'.cash = (positions.cash * 3) \div 1000
                        /\ Last(positions'.positions).amount = positions.cash - positions'.cash
                        /\ Last(positions'.positions).amount <= positions.cash]_vars

\* an entry made after an earlier entry had reduced the cash: its amount is
\* 0.3% of the reduced cash
C37_Witness ==
    /\ pc = "persist"
    /\ Len(positions.positions) = 2
    /\ positions.positions[2].amount < positions.positions[1].amount
    /\ positions.positions[2].amount = ((positions.cash + positions.positions[2].amount) * 3) \div 1000
    /\ positions.cash > 0

\* the classification as C38 states it, for a window of 10 prices: the
\* volatility is tested first, the return only afterwards
RegimeByPrecedence(recent) ==
    LET from == recent[1]
        to == recent[Len(recent)]
    IN IF Volatile(recent) THEN "volatile"
       ELSE IF (to - from) * 100 > 5 * from THEN "bull"
       ELSE IF (to - from) * 100 < (-5) * from THEN "bear"
       ELSE "sideways"

\* C38: for every history of at least 10 prices whose window is volatile,
\* or starts at a price other than 0 so that its return is defined,
\* detect_market_regime returns the class the precedence volatile, bull,
\* bear, sideways gives for the last 10 prices.
C38_RegimePrecedence ==
    \A id \in MarketIds :
        LET h == price_history_cache[id]
            recent == LastN(h, RegimeWindow)
        IN (Len(h) >= RegimeWindow /\ (Volatile(recent) \/ recent[1] # 0)) =>
               detect_market_regime(h) = RegimeByPrecedence(recent)

\* C39: a cycle that has entered its loop returns only through the save of
\* the portfolio followed by the write of the equity curve; the portfolio
\* document is written by the save and by no other step; the equity curve
\* is written by the last step only, which appends to the earlier entries
\* exactly one entry whose cash, equity, position count and max_drawdown
\* are those of the portfolio document just saved.
C39_CycleEndsWithSaveAndEntry ==
    [][/\ (pc # "idle" /\ pc' = "idle") => (pc = "equity" /\ last' = "completed")
       /\ (pc = "loop" /\ pc' # "loop") => pc' = "persist"
       /\ pc = "persist" => (pc' = "equity" /\ posFile' = OkFile(positions'))
       /\ posFile' # posFile => pc = "persist"
       /\ equityFile' # equityFile => pc = "equity"
       /\ pc = "equity" =>
              /\ posFile' = posFile
              /\ EquityCurve' = Append(EquityCurve, EquityEntry(PersistedDoc))
              /\ Last(EquityCurve').cash = PersistedDoc'.cash
              /\ Last(EquityCurve').equity = PersistedDoc'.equity
              /\ Last(EquityCurve').positions_count = Len(PersistedDoc'.positions)
              /\ Last(EquityCurve').max_drawdown = PersistedDoc'.max_drawdown]_vars

\* a completed cycle has saved a portfolio with a position marked away
\* from its entry price and appended the matching entry
C39_Witness ==
    /\ pc = "idle" /\ last = "completed"
    /\ Len(EquityCurve) > Len(load_equity(pre.equity))
    /\ Last(EquityCurve) = EquityEntry(PersistedDoc)
    /\ Last(EquityCurve).positions_count > 0
    /\ Last(EquityCurve).equity # Last(EquityCurve).cash
    /\ Last(EquityCurve).max_drawdown > 0

====
